---- MODULE Spec2Model ----
(***************************************************************************)
(* The foreign-function boundary of go-cosmwasm (src/src/lib.rs) and the   *)
(* iterator adapter GoIter (src/src/iterator.rs).                          *)
(*                                                                         *)
(* Spec     : a host thread calling the exported entry points one after    *)
(*            the other.  instantiate/handle/migrate/query run in steps    *)
(*            (validate, get_instance, VM call, gas write, recycle,        *)
(*            propagate, return), the other entry points in one step.      *)
(* IterSpec : a consumer pulling items out of a GoIter whose next_db       *)
(*            callback is played by the environment.                       *)
(***************************************************************************)
EXTENDS Integers, Sequences, FiniteSets, TLC

(* ------------------------------ bounds -------------------------------- *)
\* largest gas limit a caller passes
MaxGas == 2
\* number of cache handles init_cache may hand out in one run
MaxCaches == 1
\* number of next() calls a consumer makes on one GoIter
MaxPulls == 3
\* largest gas amount the next_db callback reports for one step
MaxStepGas == 1

(* --------------------------- host threads ----------------------------- *)
Threads == {"t1", "t2"}
\* the threads that call in the sequential specification
SeqThreads == {"t1"}

(* ------------------------------ Buffer -------------------------------- *)
\* Buffer::default(): the empty/null sentinel
Buffer_default == [ptr |-> FALSE, data |-> <<>>]
\* a caller-owned buffer over some bytes
Buf(d) == [ptr |-> TRUE, data |-> d]
\* Buffer::from_vec(v): native-owned buffer holding v
Buffer_from_vec(v) == [ptr |-> TRUE, data |-> v]
\* Buffer::read(): absent for the empty/null sentinel, the bytes otherwise
None == [some |-> FALSE, data |-> <<>>]
Some(d) == [some |-> TRUE, data |-> d]
read(b) == IF (~b.ptr) \/ Len(b.data) = 0 THEN None ELSE Some(b.data)
\* what a foreign caller sees of a returned Buffer: does it carry bytes?
IsEmptyBuffer(b) == (~b.ptr) \/ Len(b.data) = 0

(* ------------------------------ errors -------------------------------- *)
DATA_DIR_ARG == "data_dir"
FEATURES_ARG == "supported_features"
CACHE_ARG == "cache"
WASM_ARG == "wasm"
CODE_ID_ARG == "code_id"
MSG_ARG == "msg"
PARAMS_ARG == "params"
GAS_USED_ARG == "gas_used"

NoError == <<>>
Error_empty_arg(name) == <<"empty_arg", name>>
Error_panic == <<"panic", "Caught panic">>
Error_vm_err(msg) == <<"vm_err", msg>>
Error_invalid_utf8 == <<"invalid_utf8", "">>
Error_wrong_length == <<"vm_err", "checksum not of length 32">>

\* Result<T, Error>, plus the third way a Rust call can end: unwinding
Ok(v) == [tag |-> "ok", val |-> v, handle |-> 0, err |-> NoError]
OkHandle(h) == [tag |-> "ok", val |-> <<>>, handle |-> h, err |-> NoError]
Err(e) == [tag |-> "err", val |-> <<>>, handle |-> 0, err |-> e]
Unwinding == [tag |-> "panic", val |-> <<>>, handle |-> 0, err |-> NoError]
NoResult == [tag |-> "none", val |-> <<>>, handle |-> 0, err |-> NoError]

\* catch_unwind(..).unwrap_or_else(|_| Err(Error::panic()))
catch_unwind(r) == IF r.tag = "panic" THEN Err(Error_panic) ELSE r

\* the caller's error output: err: Option<&mut Buffer>
\* ptr = FALSE is a null out-pointer; msg is what the buffer holds
ErrNull == [ptr |-> FALSE, msg |-> <<>>]
ErrEmpty == [ptr |-> TRUE, msg |-> <<>>]
ErrStale == [ptr |-> TRUE, msg |-> <<"stale", "left by an earlier call">>]
ErrArgs == {ErrNull, ErrEmpty, ErrStale}

\* set_error(e, err): the message goes to the buffer when one was supplied
set_error(e, err) == IF err.ptr THEN [err EXCEPT !.msg = e] ELSE err
\* clear_error(): called without the caller's buffer, which it cannot reach
clear_error(err) == err
\* handle_c_error(r, err): Ok -> the value, Err -> set_error and the default
\* value.  On Ok the buffer is left untouched or cleared (cleared = TRUE).
handle_c_error(r, err, cleared) ==
    IF r.tag = "ok"
    THEN [data |-> r.val,
          err |-> IF cleared /\ err.ptr THEN [err EXCEPT !.msg = <<>>] ELSE err]
    ELSE [data |-> <<>>, err |-> set_error(r.err, err)]

(* --------------------------- external world --------------------------- *)
\* the ways a call into the VM crate can end
Outcomes == {"ok", "err", "panic"}
External(o, v, msg) ==
    CASE o = "ok" -> Ok(v)
      [] o = "err" -> Err(Error_vm_err(msg))
      [] OTHER -> Unwinding

Wasms == {"wasmA"}
\* Checksum::generate(wasm)
Checksum_generate(w) == <<"sha256", w>>
\* <Checksum as TryFrom<&[u8]>>: only a slice of the checksum length converts
Checksum_try_from(d) ==
    IF Len(d) = Len(Checksum_generate("wasmA")) THEN Ok(d) ELSE Err(Error_wrong_length)

\* from_utf8(bytes)
from_utf8(d) == IF \E i \in 1..Len(d) : d[i] = "0xFF" THEN Err(Error_invalid_utf8) ELSE Ok(d)

(* ------------------------------- state -------------------------------- *)
VARIABLES
    frame,      \* per host thread: the call it is in, or the one it last made
    caches,     \* per handle: the CosmCache behind it
    process,    \* "running" or "aborted"
    iter        \* the GoIter under test and what its consumer has pulled

vars == <<frame, caches, process, iter>>

Handles == 1..MaxCaches
NullHandle == 0

NoArgs == [cache |-> NullHandle, gas_limit |-> 0, bufs |-> <<>>]
\* the caller's u64 gas_used location before the call
GasUsedStale == MaxGas + 1
NoGasUsed == [ptr |-> FALSE, val |-> 0]
NoRet == [buf |-> Buffer_default, handle |-> NullHandle, flag |-> FALSE]

IdleFrame ==
    [pc |-> "idle", op |-> "none", args |-> NoArgs,
     err_in |-> ErrNull, err |-> ErrNull,
     gas_used |-> NoGasUsed, inst |-> 0, gas_left |-> 0,
     res |-> NoResult, r |-> NoResult, ret |-> NoRet, trace |-> <<>>]

\* the instances a cache can have checked out: at most one per calling thread
InstanceIds == 1..Cardinality(Threads)
\* out: the instances checked out; gas: each instance's remaining-gas meter
FreshCache ==
    [state |-> "unalloc", drops |-> 0, codes |-> {}, out |-> {},
     gas |-> [i \in InstanceIds |-> 0]]

\* no GoIter constructed yet
IterIdle == [made |-> FALSE, next_db |-> FALSE, hist |-> <<>>]

Init ==
    /\ frame = [t \in Threads |-> IdleFrame]
    /\ caches = [h \in Handles |-> FreshCache]
    /\ process = "running"
    /\ iter = IterIdle

\* a thread may start a call when the process lives and it is in no call
CanCall(t) == process = "running" /\ frame[t].pc = "idle"

\* the handles a protocol-abiding caller passes: null or one not yet released
LiveHandles == {h \in Handles : caches[h].state = "live"}
CacheArgs == {NullHandle} \cup LiveHandles

\* to_cache without the null check
to_cache_unchecked(ptr) == [some |-> TRUE, h |-> ptr]

\* to_cache(ptr)
to_cache(ptr) == IF ptr = NullHandle THEN [some |-> FALSE, h |-> NullHandle]
                 ELSE [some |-> TRUE, h |-> ptr]

\* a call that has returned to the foreign caller
Returned(t, op, args, errIn, r, errOut, ret) ==
    [IdleFrame EXCEPT !.pc = "done", !.op = op, !.args = args, !.err_in = errIn,
                      !.r = r, !.err = errOut, !.ret = ret]

\* a fault that unwinds out of an extern "C" function: the process aborts or
\* the unwinding runs on into the foreign frames
Escaped(t, op, args, errIn) ==
    [IdleFrame EXCEPT !.pc = "escaped", !.op = op, !.args = args, !.err_in = errIn,
                      !.err = errIn, !.r = Unwinding]
EscapeOutcomes == {"running", "aborted"}

(* ------------------- entry points without a handle -------------------- *)
\* the shape shared by key_gen and init_bootstrap: one collaborator call
BufferEntry(t, op, args, e, res) ==
    IF res.tag = "panic"
    THEN /\ frame' = [frame EXCEPT ![t] = Escaped(t, op, args, e)]
         /\ process' \in EscapeOutcomes
    ELSE /\ process' = process
         /\ frame' = [frame EXCEPT ![t] =
                IF res.tag = "err"
                THEN Returned(t, op, args, e, res, set_error(res.err, e),
                              [NoRet EXCEPT !.buf = Buffer_default])
                ELSE Returned(t, op, args, e, res, clear_error(e),
                              [NoRet EXCEPT !.buf = Buffer_from_vec(res.val)])]

key_gen(t) ==
    /\ CanCall(t)
    /\ \E e \in ErrArgs, o \in Outcomes :
         BufferEntry(t, "key_gen", NoArgs, e, External(o, <<"key">>, "key_gen"))
    /\ UNCHANGED <<caches, iter>>

init_bootstrap(t) ==
    /\ CanCall(t)
    /\ \E e \in ErrArgs, o \in Outcomes :
         BufferEntry(t, "init_bootstrap", NoArgs, e,
                     External(o, <<"bootstrap">>, "init_bootstrap"))
    /\ UNCHANGED <<caches, iter>>

ByteArgs == {Buffer_default, Buf(<<"bytes">>)}

get_encrypted_seed(t) ==
    /\ CanCall(t)
    /\ \E e \in ErrArgs, cert \in ByteArgs, o \in Outcomes :
         LET args == [NoArgs EXCEPT !.bufs = [cert |-> cert]]
             res == IF ~read(cert).some
                    THEN Err(Error_vm_err("Attestation Certificate is empty"))
                    ELSE External(o, <<"seed">>, "get_encrypted_seed")
         IN  BufferEntry(t, "get_encrypted_seed", args, e, res)
    /\ UNCHANGED <<caches, iter>>

\* BoolEntry answering true whatever the collaborator returned
BoolEntry_always_true(t, op, args, e, res) ==
    IF res.tag = "panic"
    THEN /\ frame' = [frame EXCEPT ![t] = Escaped(t, op, args, e)]
         /\ process' \in EscapeOutcomes
    ELSE /\ process' = process
         /\ frame' = [frame EXCEPT ![t] =
                IF res.tag = "err"
                THEN Returned(t, op, args, e, res, set_error(res.err, e),
                              [NoRet EXCEPT !.flag = TRUE])
                ELSE Returned(t, op, args, e, res, clear_error(e),
                              [NoRet EXCEPT !.flag = TRUE])]

\* the shape shared by init_node and create_attestation_report: a bool
BoolEntry(t, op, args, e, res) ==
    IF res.tag = "panic"
    THEN /\ frame' = [frame EXCEPT ![t] = Escaped(t, op, args, e)]
         /\ process' \in EscapeOutcomes
    ELSE /\ process' = process
         /\ frame' = [frame EXCEPT ![t] =
                IF res.tag = "err"
                THEN Returned(t, op, args, e, res, set_error(res.err, e),
                              [NoRet EXCEPT !.flag = FALSE])
                ELSE Returned(t, op, args, e, res, clear_error(e),
                              [NoRet EXCEPT !.flag = TRUE])]

init_node(t) ==
    /\ CanCall(t)
    /\ \E e \in ErrArgs, cert \in ByteArgs, seed \in ByteArgs, o \in Outcomes :
         LET args == [NoArgs EXCEPT !.bufs = [master_cert |-> cert, encrypted_seed |-> seed]]
             res == IF ~read(cert).some THEN Err(Error_vm_err("Public key is empty"))
                    ELSE IF ~read(seed).some THEN Err(Error_vm_err("Encrypted seed is empty"))
                    ELSE External(o, <<>>, "init_node")
         IN  BoolEntry(t, "init_node", args, e, res)
    /\ UNCHANGED <<caches, iter>>

create_attestation_report(t) ==
    /\ CanCall(t)
    /\ \E e \in ErrArgs, o \in Outcomes :
         BoolEntry(t, "create_attestation_report", NoArgs, e,
                   External(o, <<>>, "create_attestation_report"))
    /\ UNCHANGED <<caches, iter>>

(* --------------------------- cache lifecycle -------------------------- *)
TextArgs == {Buffer_default, Buf(<<"0xFF">>), Buf(<<"text">>)}

\* do_init_cache with supported_features handed on without from_utf8
do_init_cache_features_unchecked(data_dir, supported_features, o, h) ==
    LET dir == read(data_dir)
        features_bin == read(supported_features)
    IN  IF ~dir.some THEN [r |-> Err(Error_empty_arg(DATA_DIR_ARG)), ops |-> <<>>]
        ELSE IF from_utf8(dir.data).tag = "err" THEN [r |-> from_utf8(dir.data), ops |-> <<>>]
        ELSE IF ~features_bin.some
             THEN [r |-> Err(Error_empty_arg(FEATURES_ARG)), ops |-> <<>>]
        ELSE [r |-> CASE o = "ok" -> OkHandle(h)
                      [] o = "err" -> Err(Error_vm_err("CosmCache::new"))
                      [] OTHER -> Unwinding,
              ops |-> <<"CosmCache::new">>]

\* do_init_cache: o is how CosmCache::new ends, h the address Box::new gives;
\* ops tells whether CosmCache::new was reached
do_init_cache(data_dir, supported_features, o, h) ==
    LET dir == read(data_dir)
        features_bin == read(supported_features)
    IN  IF ~dir.some THEN [r |-> Err(Error_empty_arg(DATA_DIR_ARG)), ops |-> <<>>]
        ELSE IF from_utf8(dir.data).tag = "err" THEN [r |-> from_utf8(dir.data), ops |-> <<>>]
        ELSE IF ~features_bin.some
             THEN [r |-> Err(Error_empty_arg(FEATURES_ARG)), ops |-> <<>>]
        ELSE IF from_utf8(features_bin.data).tag = "err"
             THEN [r |-> from_utf8(features_bin.data), ops |-> <<>>]
        ELSE [r |-> CASE o = "ok" -> OkHandle(h)
                      [] o = "err" -> Err(Error_vm_err("CosmCache::new"))
                      [] OTHER -> Unwinding,
              ops |-> <<"CosmCache::new">>]

\* a handle no init_cache has handed out yet (none once MaxCaches were)
FreeHandles == {h \in Handles : caches[h].state = "unalloc"}

init_cache(t) ==
    /\ CanCall(t)
    /\ \E e \in ErrArgs, dir \in TextArgs, feat \in TextArgs, o \in Outcomes,
          h \in Handles :
         LET args == [NoArgs EXCEPT !.bufs = [data_dir |-> dir, supported_features |-> feat]]
             run == do_init_cache(dir, feat, o, h)
             r == catch_unwind(run.r)
             new == IF run.ops = <<>> THEN NoResult ELSE run.r
         IN  /\ r.tag = "ok" => (h \in FreeHandles /\ \A g \in FreeHandles : h <= g)
             /\ r.tag # "ok" => h = 1
             /\ caches' = IF r.tag = "ok"
                          THEN [caches EXCEPT ![h].state = "live"]
                          ELSE caches
             /\ frame' = [frame EXCEPT ![t] =
                    [(IF r.tag = "ok"
                      THEN Returned(t, "init_cache", args, e, r, clear_error(e),
                                    [NoRet EXCEPT !.handle = r.handle])
                      ELSE Returned(t, "init_cache", args, e, r, set_error(r.err, e),
                                    [NoRet EXCEPT !.handle = NullHandle]))
                     EXCEPT !.trace = run.ops, !.res = new]]
    /\ UNCHANGED <<process, iter>>

\* release_cache that forgets the box instead of dropping it
release_cache_leak(t) ==
    /\ CanCall(t)
    /\ \E c \in CacheArgs :
         /\ caches' = caches
         /\ frame' = [frame EXCEPT ![t] =
                Returned(t, "release_cache", [NoArgs EXCEPT !.cache = c],
                         ErrNull, NoResult, ErrNull, NoRet)]
    /\ UNCHANGED <<process, iter>>

\* release_cache: Box::from_raw drops the cache, unless the handle is null
release_cache(t) ==
    /\ CanCall(t)
    /\ \E c \in CacheArgs :
         /\ caches' = IF c # NullHandle
                      THEN [caches EXCEPT ![c].state = "freed",
                                          ![c].drops = caches[c].drops + 1]
                      ELSE caches
         /\ frame' = [frame EXCEPT ![t] =
                Returned(t, "release_cache", [NoArgs EXCEPT !.cache = c],
                         ErrNull, NoResult, ErrNull, NoRet)]
    /\ UNCHANGED <<process, iter>>

(* --------------------------- create / get_code ------------------------ *)
WasmArgs == {Buffer_default} \cup {Buf(<<w>>) : w \in Wasms}
CodeIdArgs == {Buffer_default, Buf(<<"sha256">>)} \cup {Buf(Checksum_generate(w)) : w \in Wasms}

\* cache.save_wasm(wasm): o is how the collaborator ends
save_wasm(wasm, o) == External(o, Checksum_generate(wasm[1]), "save_wasm")
\* cache.load_wasm(&id): only a stored checksum loads
load_wasm(c, id, o) ==
    IF o = "ok" /\ ~(id[2] \in caches[c].codes) THEN Err(Error_vm_err("load_wasm"))
    ELSE External(o, <<id[2]>>, "load_wasm")

\* do_create, with the cache operations it performed
do_create(c, wasm, o) ==
    LET w == read(wasm)
    IN  IF ~w.some THEN [r |-> Err(Error_empty_arg(WASM_ARG)), ops |-> <<>>]
        ELSE [r |-> save_wasm(w.data, o), ops |-> <<"save_wasm">>]

create(t) ==
    /\ CanCall(t)
    /\ \E c \in CacheArgs, wasm \in WasmArgs, e \in ErrArgs, o \in Outcomes,
          cleared \in BOOLEAN :
         LET args == [NoArgs EXCEPT !.cache = c, !.bufs = [wasm |-> wasm]]
             run == do_create(c, wasm, o)
             r == IF to_cache(c).some THEN catch_unwind(run.r)
                  ELSE Err(Error_empty_arg(CACHE_ARG))
             trace == IF to_cache(c).some THEN <<"deref">> \o run.ops ELSE <<>>
             out == handle_c_error(r, e, cleared)
         IN  /\ caches' = IF to_cache(c).some /\ run.r.tag = "ok"
                          THEN [caches EXCEPT ![c].codes = @ \cup {read(wasm).data[1]}]
                          ELSE caches
             /\ frame' = [frame EXCEPT ![t] =
                    [Returned(t, "create", args, e, r, out.err,
                              [NoRet EXCEPT !.buf = Buffer_from_vec(out.data)])
                     EXCEPT !.trace = trace]]
    /\ UNCHANGED <<process, iter>>

\* do_get_code, with the cache operations it performed
do_get_code(c, id, o) ==
    LET i == read(id)
    IN  IF ~i.some THEN [r |-> Err(Error_empty_arg(CACHE_ARG)), ops |-> <<>>]
        ELSE IF Checksum_try_from(i.data).tag = "err"
             THEN [r |-> Checksum_try_from(i.data), ops |-> <<>>]
        ELSE [r |-> load_wasm(c, i.data, o), ops |-> <<"load_wasm">>]

get_code(t) ==
    /\ CanCall(t)
    /\ \E c \in CacheArgs, id \in CodeIdArgs, e \in ErrArgs, o \in Outcomes,
          cleared \in BOOLEAN :
         LET args == [NoArgs EXCEPT !.cache = c, !.bufs = [id |-> id]]
             r == IF to_cache(c).some THEN catch_unwind(do_get_code(c, id, o).r)
                  ELSE Err(Error_empty_arg(CACHE_ARG))
             trace == IF to_cache(c).some THEN <<"deref">> \o do_get_code(c, id, o).ops
                      ELSE <<>>
             out == handle_c_error(r, e, cleared)
         IN  frame' = [frame EXCEPT ![t] =
                    [Returned(t, "get_code", args, e, r, out.err,
                              [NoRet EXCEPT !.buf = Buffer_from_vec(out.data)])
                     EXCEPT !.trace = trace]]
    /\ UNCHANGED <<caches, process, iter>>

(* ---------------- instantiate / handle / migrate / query -------------- *)
JsonArgs == {Buffer_default, Buf(<<"{}">>)}
GasLimits == 0..MaxGas
GasOps == {"instantiate", "handle", "migrate", "query"}

\* every argument list a caller can pass to an entry point that takes gas
GasCallArgs ==
    [cache : CacheArgs, code_id : CodeIdArgs, params : JsonArgs, msg : JsonArgs,
     gas_limit : GasLimits, gas_used : BOOLEAN, err : ErrArgs]

\* the decoding with params looked at before the checksum
do_call_decode_params_first(a, hasParams) ==
    IF ~a.gas_used THEN Err(Error_empty_arg(GAS_USED_ARG))
    ELSE IF hasParams /\ ~read(a.params).some THEN Err(Error_empty_arg(PARAMS_ARG))
    ELSE IF ~read(a.code_id).some THEN Err(Error_empty_arg(CODE_ID_ARG))
    ELSE IF Checksum_try_from(read(a.code_id).data).tag = "err"
         THEN Checksum_try_from(read(a.code_id).data)
    ELSE IF ~read(a.msg).some THEN Err(Error_empty_arg(MSG_ARG))
    ELSE Ok(read(a.code_id).data)

\* the argument decoding that opens do_init, do_handle and do_migrate
\* (hasParams) and do_query (no params): the first failing check decides
do_call_decode(a, hasParams) ==
    IF ~a.gas_used THEN Err(Error_empty_arg(GAS_USED_ARG))
    ELSE IF ~read(a.code_id).some THEN Err(Error_empty_arg(CODE_ID_ARG))
    ELSE IF Checksum_try_from(read(a.code_id).data).tag = "err"
         THEN Checksum_try_from(read(a.code_id).data)
    ELSE IF hasParams /\ ~read(a.params).some THEN Err(Error_empty_arg(PARAMS_ARG))
    ELSE IF ~read(a.msg).some THEN Err(Error_empty_arg(MSG_ARG))
    ELSE Ok(read(a.code_id).data)

\* the exported function up to the point where do_* needs the cache
GasEntry(t, op, hasParams, inputs) ==
    /\ CanCall(t)
    /\ \E a \in inputs :
         LET args == [cache |-> a.cache, gas_limit |-> a.gas_limit,
                      bufs |-> [code_id |-> a.code_id, params |-> a.params, msg |-> a.msg]]
             decoded == do_call_decode(a, hasParams)
             base == [IdleFrame EXCEPT !.op = op, !.args = args, !.err_in = a.err,
                         !.err = a.err,
                         !.gas_used = [ptr |-> a.gas_used, val |-> GasUsedStale]]
         IN  frame' = [frame EXCEPT ![t] =
                 IF ~to_cache(a.cache).some
                 THEN [base EXCEPT !.pc = "ret", !.r = Err(Error_empty_arg(CACHE_ARG))]
                 ELSE IF decoded.tag = "err"
                 THEN [base EXCEPT !.pc = "ret", !.r = catch_unwind(decoded),
                                   !.trace = <<"deref">>]
                 ELSE [base EXCEPT !.pc = "get_instance", !.trace = <<"deref">>]]
    /\ UNCHANGED <<caches, process, iter>>

instantiate(t) == GasEntry(t, "instantiate", TRUE, GasCallArgs)
handle(t) == GasEntry(t, "handle", TRUE, GasCallArgs)
migrate(t) == GasEntry(t, "migrate", TRUE, GasCallArgs)
query(t) == GasEntry(t, "query", FALSE, GasCallArgs)

\* the instance get_instance hands out: one nobody holds
NewInstance(c) == CHOOSE i \in InstanceIds : i \notin caches[c].out /\
                     \A j \in InstanceIds : j \notin caches[c].out => i <= j

\* t holds the &'static mut CosmCache that to_cache made while another
\* thread's do_* still holds one to the same cache: to_cache takes no lock,
\* so the two exclusive references alias
Aliased(t) ==
    \E u \in Threads \ {t} :
        /\ frame[u].pc \in {"get_instance", "call", "gas", "recycle", "propagate"}
        /\ frame[u].args.cache = frame[t].args.cache

\* what cache.get_instance can hand out: alone in the cache, an instance
\* nobody holds; racing with another thread's aliasing reference, any
\* instance of the pool
Handout(t) ==
    IF Aliased(t) THEN InstanceIds ELSE {NewInstance(frame[t].args.cache)}

\* get_instance whose failure path reports zero gas used
get_instance_gas_zeroed(t) ==
    /\ process = "running"
    /\ frame[t].pc = "get_instance"
    /\ LET f == frame[t]
           c == f.args.cache
           stored == f.args.bufs.code_id.data[2] \in caches[c].codes
       IN \E o \in Outcomes, i \in Handout(t) :
           IF o = "ok" /\ stored
           THEN /\ frame' = [frame EXCEPT ![t] =
                      [f EXCEPT !.pc = "call", !.inst = i,
                                !.gas_left = f.args.gas_limit,
                                !.trace = Append(@, "get_instance")]]
                /\ caches' = [caches EXCEPT ![c].out = @ \cup {i},
                                            ![c].gas[i] = f.args.gas_limit]
           ELSE /\ frame' = [frame EXCEPT ![t] =
                      [f EXCEPT !.pc = "ret", !.gas_used.val = 0,
                                !.r = catch_unwind(
                                    IF o = "panic" THEN Unwinding
                                    ELSE Err(Error_vm_err("get_instance")))]]
                /\ caches' = caches
    /\ UNCHANGED <<process, iter>>

\* cache.get_instance(&code_id, deps, gas_limit)?
get_instance(t) ==
    /\ process = "running"
    /\ frame[t].pc = "get_instance"
    /\ LET f == frame[t]
           c == f.args.cache
           stored == f.args.bufs.code_id.data[2] \in caches[c].codes
       IN \E o \in Outcomes, i \in Handout(t) :
           IF o = "ok" /\ stored
           THEN /\ frame' = [frame EXCEPT ![t] =
                      [f EXCEPT !.pc = "call", !.inst = i,
                                !.gas_left = f.args.gas_limit,
                                !.trace = Append(@, "get_instance")]]
                /\ caches' = [caches EXCEPT ![c].out = @ \cup {i},
                                            ![c].gas[i] = f.args.gas_limit]
           ELSE /\ frame' = [frame EXCEPT ![t] =
                      [f EXCEPT !.pc = "ret",
                                !.r = catch_unwind(
                                    IF o = "panic" THEN Unwinding
                                    ELSE Err(Error_vm_err("get_instance")))]]
                /\ caches' = caches
    /\ UNCHANGED <<process, iter>>

\* call_raw followed by `?`: an error result leaves do_* at once, before
\* gas_used is written and without recycle (the instance is dropped)
call_raw_error_first(t) ==
    /\ process = "running"
    /\ frame[t].pc = "call"
    /\ LET f == frame[t]
           c == f.args.cache
       IN \E o \in Outcomes, left \in 0..f.args.gas_limit :
           IF o = "panic"
           THEN /\ left = f.args.gas_limit
                /\ frame' = [frame EXCEPT ![t] =
                      [f EXCEPT !.pc = "ret", !.r = catch_unwind(Unwinding),
                                !.res = Unwinding, !.inst = 0,
                                !.trace = @ \o <<"vm", "drop">>]]
                /\ caches' = [caches EXCEPT ![c].out = @ \ {f.inst},
                                            ![c].gas[f.inst] = 0]
           ELSE IF o = "err"
           THEN /\ frame' = [frame EXCEPT ![t] =
                      [f EXCEPT !.pc = "ret", !.gas_left = left, !.inst = 0,
                                !.res = External(o, <<"result">>, "contract"),
                                !.r = External(o, <<"result">>, "contract"),
                                !.trace = @ \o <<"vm", "result", "drop">>]]
                /\ caches' = [caches EXCEPT ![c].out = @ \ {f.inst},
                                            ![c].gas[f.inst] = 0]
           ELSE /\ frame' = [frame EXCEPT ![t] =
                      [f EXCEPT !.pc = "gas", !.gas_left = left,
                                !.res = External(o, <<"result">>, "contract"),
                                !.trace = Append(@, "vm")]]
                /\ caches' = [caches EXCEPT ![c].gas[f.inst] = left]
    /\ UNCHANGED <<process, iter>>

\* let res = call_*_raw(&mut instance, ..): the VM runs and leaves gas_left;
\* a fault unwinds through do_*, dropping the instance, up to catch_unwind
call_raw(t) ==
    /\ process = "running"
    /\ frame[t].pc = "call"
    /\ LET f == frame[t]
           c == f.args.cache
       IN \E o \in Outcomes, left \in 0..f.args.gas_limit :
           IF o = "panic"
           THEN /\ left = f.args.gas_limit
                /\ frame' = [frame EXCEPT ![t] =
                      [f EXCEPT !.pc = "ret", !.r = catch_unwind(Unwinding),
                                !.res = Unwinding, !.inst = 0,
                                !.trace = @ \o <<"vm", "drop">>]]
                /\ caches' = [caches EXCEPT ![c].out = @ \ {f.inst},
                                            ![c].gas[f.inst] = 0]
           ELSE /\ frame' = [frame EXCEPT ![t] =
                      [f EXCEPT !.pc = "gas", !.gas_left = left,
                                !.res = External(o, <<"result">>, "contract"),
                                !.trace = Append(@, "vm")]]
                /\ caches' = [caches EXCEPT ![c].gas[f.inst] = left]
    /\ UNCHANGED <<process, iter>>

\* u64 subtraction as a release build does it (wrapping).  The checker's
\* integers are 32 bits wide, so 2^30 stands in for 2^64: both exceed every
\* gas value of the model.
U64Modulus == 2 ^ 30
\* the subtraction with its operands exchanged
u64_sub_reversed(a, b) == (b - a) % U64Modulus

\* a - b on u64
u64_sub(a, b) == (a - b) % U64Modulus

\* write_gas_used reporting the gas that is left instead of the gas used
write_gas_left(t) ==
    /\ process = "running"
    /\ frame[t].pc = "gas"
    /\ frame' = [frame EXCEPT ![t] =
          [@ EXCEPT !.pc = "recycle",
                    !.gas_used.val = caches[frame[t].args.cache].gas[frame[t].inst],
                    !.trace = Append(@, "gas_used")]]
    /\ UNCHANGED <<caches, process, iter>>

\* *gas_used = gas_limit - instance.get_gas_left();
write_gas_used(t) ==
    /\ process = "running"
    /\ frame[t].pc = "gas"
    /\ frame' = [frame EXCEPT ![t] =
          [@ EXCEPT !.pc = "recycle",
                    !.gas_used.val = u64_sub(frame[t].args.gas_limit,
                                     caches[frame[t].args.cache].gas[frame[t].inst]),
                    !.trace = Append(@, "gas_used")]]
    /\ UNCHANGED <<caches, process, iter>>

\* recycle that keeps the instance checked out
recycle_forgotten(t) ==
    /\ process = "running"
    /\ frame[t].pc = "recycle"
    /\ frame' = [frame EXCEPT ![t] = [@ EXCEPT !.pc = "propagate"]]
    /\ UNCHANGED <<caches, process, iter>>

\* instance.recycle();
recycle(t) ==
    /\ process = "running"
    /\ frame[t].pc = "recycle"
    /\ frame' = [frame EXCEPT ![t] =
          [@ EXCEPT !.pc = "propagate", !.inst = 0, !.trace = Append(@, "recycle")]]
    /\ caches' = [caches EXCEPT ![frame[t].args.cache].out = @ \ {frame[t].inst},
                                ![frame[t].args.cache].gas[frame[t].inst] = 0]
    /\ UNCHANGED <<process, iter>>

\* Ok(res?)
propagate(t) ==
    /\ process = "running"
    /\ frame[t].pc = "propagate"
    /\ frame' = [frame EXCEPT ![t] =
          [@ EXCEPT !.pc = "ret", !.r = catch_unwind(frame[t].res),
                    !.trace = Append(@, "result")]]
    /\ UNCHANGED <<caches, process, iter>>

\* let data = handle_c_error(r, err); Buffer::from_vec(data)
ffi_return(t) ==
    /\ process = "running"
    /\ frame[t].pc = "ret"
    /\ \E cleared \in BOOLEAN :
         LET out == handle_c_error(frame[t].r, frame[t].err, cleared)
         IN  frame' = [frame EXCEPT ![t] =
                [@ EXCEPT !.pc = "done", !.err = out.err,
                          !.ret = [NoRet EXCEPT !.buf = Buffer_from_vec(out.data)]]]
    /\ UNCHANGED <<caches, process, iter>>

(* --------------------------- the foreign caller ----------------------- *)
\* the caller has looked at what the call returned and is ready to call again
caller_continues(t) ==
    /\ process = "running"
    /\ frame[t].pc = "done"
    /\ frame' = [frame EXCEPT ![t] = IdleFrame]
    /\ UNCHANGED <<caches, process, iter>>

(* ------------------------------- GoIter ------------------------------- *)
\* FfiError: a kind and a message
FfiError_other(msg) == [kind |-> "other", msg |-> msg]
NoFfiError == [kind |-> "none", msg |-> ""]

\* the i32 the callback returns, read as a GoResult: 0 is Ok, 1..5 are
\* Panic, BadArgument, OutOfGas, Other, User; any other value is Other
GoResult_from(rc) ==
    CASE rc = 0 -> "Ok"
      [] rc = 1 -> "Panic"
      [] rc = 2 -> "BadArgument"
      [] rc = 3 -> "OutOfGas"
      [] rc = 5 -> "User"
      [] OTHER -> "Other"

\* GoResult -> FfiResult<()>
FfiResult_from(g) ==
    IF g = "Ok" THEN [ok |-> TRUE, err |-> NoFfiError]
    ELSE [ok |-> FALSE, err |-> [kind |-> g, msg |-> "Unspecified error in Go code"]]

\* error.set_message(msg)
set_message(e, msg) == [e EXCEPT !.msg = msg]

\* Option<StorageIteratorItem>
ItemEnd == [tag |-> "end", key |-> <<>>, value |-> <<>>, gas |-> 0, err |-> NoFfiError]
ItemOk(k, v, g) == [tag |-> "pair", key |-> k, value |-> v, gas |-> g, err |-> NoFfiError]
ItemErr(e) == [tag |-> "err", key |-> <<>>, value |-> <<>>, gas |-> 0, err |-> e]

\* what one invocation of the callback does: its return code and what it
\* leaves in the three output slots (wrote = FALSE: used_gas not written)
RetCodes == {0, 1, 3, 99}
KeyBufs == {Buffer_default, Buf(<<>>), Buf(<<1>>), Buf(<<2>>)}
ValueBufs == {Buffer_default, Buf(<<7>>)}
GasWrites == {[wrote |-> FALSE, val |-> 0]} \cup
             {[wrote |-> TRUE, val |-> g] : g \in 1..MaxStepGas}
\* a callback that reports success, with every combination of outputs, and
\* one that reports failure, having left nothing or a whole pair behind
SuccessRuns == [rc : {0}, used_gas : GasWrites, key : KeyBufs, value : ValueBufs]
FailureRuns ==
    {[rc |-> c, used_gas |-> [wrote |-> FALSE, val |-> 0], key |-> kv[1], value |-> kv[2]] :
        c \in RetCodes \ {0},
        kv \in {<<Buffer_default, Buffer_default>>, <<Buf(<<1>>), Buf(<<7>>)>>}}
CallbackRuns == SuccessRuns \cup FailureRuns
NotCalled == [rc |-> 0, used_gas |-> [wrote |-> FALSE, val |-> 0],
              key |-> Buffer_default, value |-> Buffer_default]

\* GoIter::default(): null gas meter, null state, empty vtable
GoIter_default ==
    /\ ~iter.made
    /\ iter' = [made |-> TRUE, next_db |-> FALSE, hist |-> <<>>]
    /\ UNCHANGED <<frame, caches, process>>

\* a GoIter the host built with next_db bound
GoIter_bound ==
    /\ ~iter.made
    /\ iter' = [made |-> TRUE, next_db |-> TRUE, hist |-> <<>>]
    /\ UNCHANGED <<frame, caches, process>>

\* next_item with key and value exchanged in the pair
next_item_swapped(cb) ==
    LET used_gas == IF cb.used_gas.wrote THEN cb.used_gas.val ELSE 0
        go_result == FfiResult_from(GoResult_from(cb.rc))
    IN  IF ~go_result.ok
        THEN ItemErr(set_message(go_result.err, "Failed to fetch next item from iterator"))
        ELSE IF read(cb.key).some
             THEN IF read(cb.value).some
                  THEN ItemOk(read(cb.value).data, read(cb.key).data, used_gas)
                  ELSE ItemErr(FfiError_other(
                           "Failed to read value while reading the next key in the db"))
             ELSE ItemEnd

\* next_item with an absent value read as an empty one
next_item_empty_value(cb) ==
    LET used_gas == IF cb.used_gas.wrote THEN cb.used_gas.val ELSE 0
        go_result == FfiResult_from(GoResult_from(cb.rc))
    IN  IF ~go_result.ok
        THEN ItemErr(set_message(go_result.err, "Failed to fetch next item from iterator"))
        ELSE IF read(cb.key).some
             THEN ItemOk(read(cb.key).data, read(cb.value).data, used_gas)
             ELSE ItemEnd

\* next_item reading the key before it looks at the return code
next_item_key_first(cb) ==
    LET used_gas == IF cb.used_gas.wrote THEN cb.used_gas.val ELSE 0
        go_result == FfiResult_from(GoResult_from(cb.rc))
    IN  IF read(cb.key).some
        THEN IF read(cb.value).some
             THEN ItemOk(read(cb.key).data, read(cb.value).data, used_gas)
             ELSE ItemErr(FfiError_other(
                      "Failed to read value while reading the next key in the db"))
        ELSE IF ~go_result.ok
             THEN ItemErr(set_message(go_result.err, "Failed to fetch next item from iterator"))
             ELSE ItemEnd

\* the body of next() after the callback cb has run
next_item(cb) ==
    LET key_buf == cb.key
        value_buf == cb.value
        used_gas == IF cb.used_gas.wrote THEN cb.used_gas.val ELSE 0
        go_result == FfiResult_from(GoResult_from(cb.rc))
    IN  IF ~go_result.ok
        THEN ItemErr(set_message(go_result.err, "Failed to fetch next item from iterator"))
        ELSE IF read(key_buf).some
             THEN IF read(value_buf).some
                  THEN ItemOk(read(key_buf).data, read(value_buf).data, used_gas)
                  ELSE ItemErr(FfiError_other(
                           "Failed to read value while reading the next key in the db"))
             ELSE ItemEnd

\* GoIter_next calling through the vtable without looking at it first
GoIter_next_unchecked ==
    /\ iter.made
    /\ Len(iter.hist) < MaxPulls
    /\ \E cb \in CallbackRuns :
          iter' = [iter EXCEPT !.hist = Append(@,
                    [called |-> TRUE, cb |-> cb, item |-> next_item(cb)])]
    /\ UNCHANGED <<frame, caches, process>>

\* gas the callback wrote in the steps of hist that surfaced none of it
RECURSIVE Unreported(_)
Unreported(hist) ==
    IF hist = <<>> THEN 0
    ELSE LET h == hist[Len(hist)]
         IN  IF h.item.tag = "pair" THEN 0
             ELSE Unreported(SubSeq(hist, 1, Len(hist) - 1))
                  + (IF h.cb.used_gas.wrote THEN h.cb.used_gas.val ELSE 0)

\* GoIter_next with used_gas kept across calls: a pair carries along the gas
\* of the steps before it that yielded no pair
GoIter_next_batched ==
    /\ iter.made
    /\ Len(iter.hist) < MaxPulls
    /\ IF ~iter.next_db
       THEN iter' = [iter EXCEPT !.hist = Append(@,
                        [called |-> FALSE, cb |-> NotCalled,
                         item |-> ItemErr(FfiError_other("iterator vtable not set"))])]
       ELSE \E cb \in CallbackRuns :
              iter' = [iter EXCEPT !.hist = Append(@,
                        [called |-> TRUE, cb |-> cb,
                         item |-> IF next_item(cb).tag = "pair"
                                  THEN [next_item(cb) EXCEPT !.gas = @ + Unreported(iter.hist)]
                                  ELSE next_item(cb)])]
    /\ UNCHANGED <<frame, caches, process>>

\* GoIter_next fused: after a step that ended the sequence or failed, the
\* callback is not invoked again and the end is returned
GoIter_next_fused ==
    /\ iter.made
    /\ Len(iter.hist) < MaxPulls
    /\ IF \E i \in 1..Len(iter.hist) : iter.hist[i].item.tag # "pair"
       THEN iter' = [iter EXCEPT !.hist = Append(@,
                        [called |-> FALSE, cb |-> NotCalled, item |-> ItemEnd])]
       ELSE IF ~iter.next_db
       THEN iter' = [iter EXCEPT !.hist = Append(@,
                        [called |-> FALSE, cb |-> NotCalled,
                         item |-> ItemErr(FfiError_other("iterator vtable not set"))])]
       ELSE \E cb \in CallbackRuns :
              iter' = [iter EXCEPT !.hist = Append(@,
                        [called |-> TRUE, cb |-> cb, item |-> next_item(cb)])]
    /\ UNCHANGED <<frame, caches, process>>

\* <GoIter as Iterator>::next: one pull by the consumer
GoIter_next ==
    /\ iter.made
    /\ Len(iter.hist) < MaxPulls
    /\ IF ~iter.next_db
       THEN iter' = [iter EXCEPT !.hist = Append(@,
                        [called |-> FALSE, cb |-> NotCalled,
                         item |-> ItemErr(FfiError_other("iterator vtable not set"))])]
       ELSE \E cb \in CallbackRuns :
              iter' = [iter EXCEPT !.hist = Append(@,
                        [called |-> TRUE, cb |-> cb, item |-> next_item(cb)])]
    /\ UNCHANGED <<frame, caches, process>>

IterNext == GoIter_default \/ GoIter_bound \/ GoIter_next

IterSpec == Init /\ [][IterNext]_vars

(* ======================= claims: the entry points ====================== *)
HandleOps == {"create", "get_code"} \cup GasOps
\* entry points that clear or set the error themselves, without handle_c_error
DirectOps == {"init_cache", "key_gen", "init_bootstrap", "get_encrypted_seed",
              "init_node", "create_attestation_report"}
BoolOps == {"init_node", "create_attestation_report"}
ErrOps == HandleOps \cup DirectOps

\* the steps of do_* once it holds an instance and the VM call returns
FullTrace == <<"deref", "get_instance", "vm", "gas_used", "recycle", "result">>
FaultTrace == <<"deref", "get_instance", "vm", "drop">>
IsPrefix(s, u) == Len(s) <= Len(u) /\ \A i \in 1..Len(s) : s[i] = u[i]
Count(s, x) == Cardinality({i \in 1..Len(s) : s[i] = x})
Has(s, x) == \E i \in 1..Len(s) : s[i] = x
\* the VM entry returned to do_*, with a result or with an error
VmReturned(f) == f.res.tag \in {"ok", "err"}

\* C1: a fault raised anywhere in an exported entry point is intercepted at
\* that entry point; no call ends with the fault unwinding past it.
C1_NoFaultPastEntryPoint ==
    /\ process = "running"
    /\ \A t \in Threads : frame[t].pc # "escaped"

\* C2 as claimed: every instantiate/handle/migrate/query call writes
\* gas_used exactly once, with gas_limit minus the remaining gas.
C2_GasWrittenInEveryCall ==
    \A t \in Threads :
        (frame[t].pc = "done" /\ frame[t].op \in GasOps)
            => /\ Count(frame[t].trace, "gas_used") = 1
               /\ frame[t].gas_used.val = frame[t].args.gas_limit - frame[t].gas_left

\* C2 as amended: gas_used is written exactly once, with gas_limit minus the
\* instance's remaining gas, in every call whose VM entry returned (result
\* or error); a call that ends before that (null handle, argument error,
\* get_instance failure, fault in the VM call) leaves gas_used as it was.
C2_GasWrittenWhenVmReturned ==
    \A t \in Threads :
        LET f == frame[t] IN
        (f.op \in GasOps) =>
            /\ Count(f.trace, "gas_used") <= 1
            /\ (f.pc \in {"ret", "done"} /\ VmReturned(f))
                 => /\ Count(f.trace, "gas_used") = 1
                    /\ f.gas_used.ptr
                    /\ f.gas_used.val = f.args.gas_limit - f.gas_left
            /\ (f.pc \in {"ret", "done"} /\ ~VmReturned(f))
                 => /\ Count(f.trace, "gas_used") = 0
                    /\ f.gas_used.val = GasUsedStale

\* a call the VM failed, with part of the gas spent and reported
C2_Witness ==
    \E t \in Threads :
        /\ frame[t].pc = "done" /\ frame[t].op \in GasOps
        /\ frame[t].res.tag = "err" /\ frame[t].r.tag = "err"
        /\ frame[t].args.gas_limit = 2 /\ frame[t].gas_left = 1
        /\ frame[t].gas_used.val = 1

\* C3: once the instance is acquired the steps run in the order VM call,
\* gas_used written, instance recycled, result propagated; a VM result
\* (bytes or error) reaches the caller only after the other three.
C3_GasAndRecycleBeforeResult ==
    \A t \in Threads :
        LET f == frame[t] IN
        (f.op \in GasOps /\ Has(f.trace, "get_instance")) =>
            /\ IsPrefix(f.trace, FullTrace) \/ f.trace = FaultTrace
            /\ (VmReturned(f) /\ f.r.tag # "none")
                 => /\ f.trace = FullTrace
                    /\ f.r = f.res
                    /\ f.gas_used.val # GasUsedStale
                    /\ f.inst = 0
                    /\ caches[f.args.cache].out = {}
            /\ (VmReturned(f) /\ f.pc = "done") => f.trace = FullTrace

C3_Witness ==
    \E t \in Threads :
        /\ frame[t].pc = "done" /\ frame[t].op = "migrate"
        /\ frame[t].res.tag = "err" /\ frame[t].r = frame[t].res
        /\ frame[t].trace = FullTrace

CacheEmptyArg == <<"empty_arg", "cache">>
NullCall(f) == f.op \in HandleOps /\ f.args.cache = NullHandle

\* C4: create, get_code, instantiate, handle, migrate and query called with
\* a null cache handle fail with the empty-argument error naming the cache,
\* without a fault, without dereferencing the handle and without any cache
\* or VM operation.
C4_NullHandle ==
    /\ [](\A t \in Threads :
            NullCall(frame[t]) =>
                /\ frame[t].pc \in {"ret", "done"}
                /\ frame[t].r = Err(CacheEmptyArg)
                /\ frame[t].trace = <<>>
                /\ frame[t].inst = 0
                /\ frame[t].res.tag = "none"
                /\ (frame[t].pc = "done") =>
                      /\ IsEmptyBuffer(frame[t].ret.buf)
                      /\ frame[t].err.ptr => frame[t].err.msg = CacheEmptyArg)
    /\ [][\A t \in Threads :
            (NullCall(frame'[t]) /\ frame'[t] # frame[t]) => caches' = caches]_vars

C4_Witness ==
    \E t \in Threads :
        /\ NullCall(frame[t]) /\ frame[t].op = "query" /\ frame[t].pc = "done"
        /\ frame[t].err.msg = CacheEmptyArg
        /\ \E h \in Handles : caches[h].state = "live"

\* C5 as claimed: every instance acquired is recycled into the cache before
\* the call returns, on every path, a fault in the VM call included.
C5_RecycledOnEveryPath ==
    \A t \in Threads :
        (frame[t].pc = "done" /\ Has(frame[t].trace, "get_instance"))
            => Has(frame[t].trace, "recycle")

\* the instances the calls in flight hold
HeldBy(t) == IF frame[t].inst = 0 THEN {} ELSE {frame[t].inst}

\* C5 as amended: an acquired instance is recycled before the call returns
\* when the VM call returns (result or error); when the VM call faults the
\* instance is dropped by the unwinding, not recycled.  Either way no
\* instance is checked out by a call that has returned.
C5_RecycledOrDropped ==
    /\ \A t \in Threads :
        LET f == frame[t] IN
        /\ (f.pc \in {"idle", "ret", "done"}) => f.inst = 0
        /\ (f.pc \in {"ret", "done"} /\ Has(f.trace, "get_instance")) =>
              /\ VmReturned(f) => (Count(f.trace, "recycle") = 1 /\ ~Has(f.trace, "drop"))
              /\ f.res.tag = "panic" => (Count(f.trace, "drop") = 1 /\ ~Has(f.trace, "recycle"))
    /\ \A h \in Handles :
          caches[h].out = UNION {IF frame[t].args.cache = h THEN HeldBy(t) ELSE {} :
                                    t \in Threads}

C5_Witness ==
    \E t \in Threads :
        /\ frame[t].pc = "done" /\ frame[t].res.tag = "panic"
        /\ frame[t].trace = FaultTrace
        /\ caches[frame[t].args.cache].out = {}

PrimaryEmpty(f) ==
    CASE f.op = "init_cache" -> f.ret.handle = NullHandle
      [] f.op \in BoolOps -> f.ret.flag = FALSE
      [] OTHER -> IsEmptyBuffer(f.ret.buf)
PrimaryIsValue(f) ==
    CASE f.op = "init_cache" -> f.ret.handle = f.r.handle /\ f.ret.handle # NullHandle
      [] f.op \in BoolOps -> f.ret.flag = TRUE
      [] OTHER -> f.ret.buf.data = f.r.val /\ ~IsEmptyBuffer(f.ret.buf)
ErrPopulated(e) == e.ptr /\ e.msg # <<>>

\* C6 as claimed, for a caller that supplies an error buffer: a failure
\* returns a null/empty primary value with the error buffer populated, a
\* success returns with the error buffer cleared.
C6_FailurePopulatesSuccessClears ==
    \A t \in Threads :
        (frame[t].pc = "done" /\ frame[t].op \in ErrOps /\ frame[t].err_in.ptr) =>
            /\ frame[t].r.tag = "err" =>
                  (PrimaryEmpty(frame[t]) /\ ErrPopulated(frame[t].err))
            /\ frame[t].r.tag = "ok" => ~ErrPopulated(frame[t].err)

\* C6 as amended: a call that returns failure returns a null/empty primary
\* value and writes its error into the error buffer when the caller gave
\* one; a call that returns success returns its value and writes no error:
\* the buffer is left as passed or cleared, and left as passed by the entry
\* points that clear the error themselves.
C6_FailureSetsSuccessWritesNothing ==
    \A t \in Threads :
        LET f == frame[t] IN
        (f.pc = "done" /\ f.op \in ErrOps) =>
            /\ f.r.tag \in {"ok", "err"}
            /\ f.err.ptr = f.err_in.ptr
            /\ f.r.tag = "err" =>
                  /\ PrimaryEmpty(f)
                  /\ f.r.err # <<>>
                  /\ f.err.ptr => f.err.msg = f.r.err
                  /\ ~f.err.ptr => f.err = f.err_in
            /\ f.r.tag = "ok" =>
                  /\ PrimaryIsValue(f)
                  /\ f.err.msg \in {f.err_in.msg, <<>>}
                  /\ f.op \in DirectOps => f.err = f.err_in

\* init_node succeeds and the message an earlier call left is still there
C6_Witness ==
    \E t \in Threads :
        /\ frame[t].pc = "done" /\ frame[t].op = "init_node"
        /\ frame[t].r.tag = "ok" /\ frame[t].ret.flag
        /\ frame[t].err_in = ErrStale /\ frame[t].err = ErrStale

\* a step in which thread t calls release_cache with handle c
Releases(t, c) ==
    /\ frame[t].pc = "idle" /\ frame'[t].pc = "done"
    /\ frame'[t].op = "release_cache" /\ frame'[t].args.cache = c

\* C10: release_cache on a null handle changes nothing; on a handle that
\* init_cache returned it drops the cache, exactly once; no other call
\* drops or replaces a cache that is live.
C10_CacheLifecycle ==
    /\ [](\A h \in Handles :
            /\ caches[h].drops <= 1
            /\ caches[h].state = "freed" <=> caches[h].drops = 1
            /\ caches[h].state = "unalloc" => caches[h].codes = {})
    /\ [][\A t \in Threads :
            /\ Releases(t, NullHandle) => caches' = caches
            /\ \A h \in Handles :
                  /\ Releases(t, h) =>
                        /\ caches[h].state = "live" /\ caches'[h].state = "freed"
                        /\ caches'[h].drops = caches[h].drops + 1
                        /\ \A g \in Handles \ {h} : caches'[g] = caches[g]
                  /\ (caches[h].state = "live" /\ ~(\E u \in Threads : Releases(u, h)))
                        => (caches'[h].state = "live" /\ caches'[h].drops = 0
                            /\ caches[h].codes \subseteq caches'[h].codes)]_vars

\* a cache that served a create and a query and was then released
C10_Witness ==
    \E h \in Handles :
        /\ caches[h].state = "freed" /\ caches[h].drops = 1
        /\ caches[h].codes # {}
        /\ \E t \in Threads : frame[t].op = "release_cache" /\ frame[t].args.cache = h

\* a text argument that is present and valid UTF-8
ValidText(b) == b.ptr /\ Len(b.data) > 0 /\ \A i \in 1..Len(b.data) : b.data[i] # "0xFF"
InitCacheArgsOk(f) ==
    ValidText(f.args.bufs.data_dir) /\ ValidText(f.args.bufs.supported_features)
InitCacheDone(f) == f.pc = "done" /\ f.op = "init_cache"

\* C11: init_cache returns a non-null handle exactly when data_dir and
\* supported_features are both present and valid UTF-8 and the cache
\* construction succeeds; otherwise it returns null with an error, and with
\* an argument error the cache is never constructed and no handle allocated.
C11_InitCacheHandle ==
    /\ [](\A t \in Threads :
            LET f == frame[t] IN
            InitCacheDone(f) =>
                /\ (f.ret.handle # NullHandle) <=> (InitCacheArgsOk(f) /\ f.res.tag = "ok")
                /\ (f.ret.handle = NullHandle) =>
                      (f.r.tag = "err" /\ f.r.err # <<>> /\ (f.err.ptr => f.err.msg = f.r.err))
                /\ (f.ret.handle # NullHandle) => f.r.tag = "ok"
                /\ InitCacheArgsOk(f) => f.trace = <<"CosmCache::new">>
                /\ (~InitCacheArgsOk(f)) => (f.trace = <<>> /\ f.res.tag = "none"))
    /\ [][\A t \in Threads :
            (InitCacheDone(frame'[t]) /\ frame[t].pc = "idle") =>
                IF frame'[t].ret.handle = NullHandle
                THEN caches' = caches
                ELSE /\ caches[frame'[t].ret.handle].state = "unalloc"
                     /\ caches'[frame'[t].ret.handle].state = "live"
                     /\ \A g \in Handles \ {frame'[t].ret.handle} : caches'[g] = caches[g]]_vars

\* valid data_dir, supported_features that is not UTF-8: null and an error
C11_Witness ==
    \E t \in Threads :
        /\ InitCacheDone(frame[t])
        /\ ValidText(frame[t].args.bufs.data_dir)
        /\ frame[t].args.bufs.supported_features = Buf(<<"0xFF">>)
        /\ frame[t].ret.handle = NullHandle
        /\ frame[t].err.msg = Error_invalid_utf8
        /\ \A h \in Handles : caches[h].state = "unalloc"

\* C12: the "empty cache argument" error is reported only for a null cache
\* handle; get_code with a non-null handle and an absent checksum names the
\* checksum argument.
C12_EmptyCacheOnlyForNullHandle ==
    \A t \in Threads :
        LET f == frame[t] IN
        (f.pc = "done" /\ f.op \in HandleOps) =>
            /\ (f.r = Err(CacheEmptyArg)) => f.args.cache = NullHandle
            /\ (/\ f.op = "get_code"
                /\ f.args.cache # NullHandle
                /\ ~read(f.args.bufs.id).some) => f.r = Err(Error_empty_arg(CODE_ID_ARG))

GasWritten(f) == f.op \in GasOps /\ Has(f.trace, "gas_used")

FirstArgError(f) ==
    LET b == f.args.bufs IN
    IF ~f.gas_used.ptr THEN Error_empty_arg(GAS_USED_ARG)
    ELSE IF IsEmptyBuffer(b.code_id) THEN Error_empty_arg(CODE_ID_ARG)
    ELSE IF Len(b.code_id.data) # Len(Checksum_generate("wasmA")) THEN Error_wrong_length
    ELSE IF f.op # "query" /\ IsEmptyBuffer(b.params) THEN Error_empty_arg(PARAMS_ARG)
    ELSE IF IsEmptyBuffer(b.msg) THEN Error_empty_arg(MSG_ARG)
    ELSE NoError
GasCallOnCache(f) == f.op \in GasOps /\ f.pc # "idle" /\ f.args.cache # NullHandle

\* C15: in instantiate, handle, migrate and query the checks run in the order
\* gas_used present, checksum present, checksum length, params present (not
\* query), msg present; the first failing check decides the error, and when
\* one fails no instance is acquired and the VM is never invoked.
C15_ValidationBeforeAcquisition ==
    \A t \in Threads :
        LET f == frame[t] IN
        GasCallOnCache(f) =>
            IF FirstArgError(f) # NoError
            THEN /\ f.pc \in {"ret", "done"}
                 /\ f.r = Err(FirstArgError(f))
                 /\ f.trace = <<"deref">>
                 /\ f.inst = 0 /\ f.res = NoResult
                 /\ caches[f.args.cache].out = {}
                 /\ (f.pc = "done" /\ f.err.ptr) => f.err.msg = FirstArgError(f)
            ELSE /\ f.r.tag = "err" =>
                     f.r.err \notin {Error_empty_arg(n) : n \in
                                       {GAS_USED_ARG, CODE_ID_ARG, PARAMS_ARG, MSG_ARG}}
                                    \cup {Error_wrong_length}
                 /\ f.pc \in {"ret", "done"} =>
                     (Has(f.trace, "get_instance") \/ f.r.tag = "err")

\* checksum, params and msg all absent: the error names the checksum
C15_Witness ==
    \E t \in Threads :
        /\ GasCallOnCache(frame[t])
        /\ frame[t].pc = "done" /\ frame[t].op = "instantiate"
        /\ frame[t].gas_used.ptr
        /\ frame[t].args.bufs.code_id = Buffer_default
        /\ frame[t].args.bufs.params = Buffer_default
        /\ frame[t].args.bufs.msg = Buffer_default
        /\ frame[t].err.msg = Error_empty_arg(CODE_ID_ARG)
        /\ frame[t].trace = <<"deref">>

\* a gas-taking call that has come back without the VM having been invoked
FailedBeforeVm(f) == f.op \in GasOps /\ f.pc \in {"ret", "done"} /\ ~Has(f.trace, "vm")

\* C18: when instantiate, handle, migrate or query fails before invoking the
\* VM (null handle, absent gas_used, absent or wrong-length checksum, absent
\* params or msg, or no instance acquired), the caller's gas_used location is
\* left as it was and no instance is left checked out.
C18_FailedCallLeavesGasUsed ==
    \A t \in Threads :
        LET f == frame[t] IN
        /\ (f.op \in GasOps /\ ~Has(f.trace, "vm")) => f.gas_used.val = GasUsedStale
        /\ FailedBeforeVm(f) =>
              /\ f.r.tag = "err"
              /\ f.inst = 0 /\ f.res = NoResult
              /\ ~Has(f.trace, "get_instance")
              /\ \A h \in Handles :
                    caches[h].out = {} /\ \A i \in InstanceIds : caches[h].gas[i] = 0

\* every argument valid, and the cache fails to hand out an instance
C18_Witness ==
    \E t \in Threads :
        /\ FailedBeforeVm(frame[t]) /\ frame[t].pc = "done"
        /\ frame[t].args.cache # NullHandle
        /\ FirstArgError(frame[t]) = NoError
        /\ frame[t].r = Err(Error_vm_err("get_instance"))
        /\ frame[t].gas_used = [ptr |-> TRUE, val |-> GasUsedStale]

(* ========================= claims: the iterator ======================== *)
\* what the callback did in one step, as the claims speak of it
Succeeded(h) == h.called /\ h.cb.rc = 0
KeyPresent(h) == h.cb.key.ptr /\ Len(h.cb.key.data) > 0
ValuePresent(h) == h.cb.value.ptr /\ Len(h.cb.value.data) > 0
PairStep(h) == Succeeded(h) /\ KeyPresent(h) /\ ValuePresent(h)
EndStep(h) == Succeeded(h) /\ ~KeyPresent(h)

\* C7: when the callback succeeds N times with a present key and a present
\* value and then once with an absent key, the adapter yields exactly those
\* N pairs, in callback order and with the callback's bytes, and then the
\* natural end, with no error anywhere in the sequence.
C7_PairsThenEnd ==
    \A n \in 0..MaxPulls :
        (/\ n + 1 <= Len(iter.hist)
         /\ \A i \in 1..n : PairStep(iter.hist[i])
         /\ EndStep(iter.hist[n + 1]))
        => /\ \A i \in 1..n :
                /\ iter.hist[i].item.tag = "pair"
                /\ iter.hist[i].item.key = iter.hist[i].cb.key.data
                /\ iter.hist[i].item.value = iter.hist[i].cb.value.data
           /\ iter.hist[n + 1].item = ItemEnd
           /\ \A i \in 1..(n + 1) : iter.hist[i].item.tag # "err"

\* two pairs with different keys, then the end
C7_Witness ==
    /\ Len(iter.hist) = 3
    /\ PairStep(iter.hist[1]) /\ PairStep(iter.hist[2]) /\ EndStep(iter.hist[3])
    /\ iter.hist[1].item.key = <<2>> /\ iter.hist[2].item.key = <<1>>
    /\ iter.hist[3].item.tag = "end"

ValueReadError ==
    FfiError_other("Failed to read value while reading the next key in the db")

\* C8: a step in which the callback reports success with a present key and
\* an absent value yields the value-read error for that step: not a pair,
\* not the natural end; and no other kind of step yields that error.
C8_AbsentValueIsError ==
    \A i \in 1..Len(iter.hist) :
        LET h == iter.hist[i] IN
        /\ (Succeeded(h) /\ KeyPresent(h) /\ ~ValuePresent(h))
              => h.item = ItemErr(ValueReadError)
        /\ (h.item.tag = "err" /\ h.item.err = ValueReadError)
              => (Succeeded(h) /\ KeyPresent(h) /\ ~ValuePresent(h))

C8_Witness ==
    \E i \in 1..Len(iter.hist) :
        /\ Succeeded(iter.hist[i]) /\ KeyPresent(iter.hist[i])
        /\ ~ValuePresent(iter.hist[i])
        /\ iter.hist[i].item.tag = "err"

\* C9: an adapter with no next callback bound is constructed without error,
\* and its first next() yields the "iterator vtable not set" error without
\* invoking any callback.
C9_UnboundVtable ==
    (iter.made /\ ~iter.next_db /\ Len(iter.hist) >= 1)
        => /\ ~iter.hist[1].called
           /\ iter.hist[1].item = ItemErr(FfiError_other("iterator vtable not set"))

C9_Witness ==
    /\ iter.made /\ ~iter.next_db /\ Len(iter.hist) >= 1
    /\ iter.hist[1].item.tag = "err"

\* the amount the callback wrote to used_gas in step h (0: wrote nothing)
WrittenGas(h) == IF h.cb.used_gas.wrote THEN h.cb.used_gas.val ELSE 0
RECURSIVE SumReported(_)
SumReported(hist) ==
    IF hist = <<>> THEN 0
    ELSE SumReported(Tail(hist)) + (IF PairStep(Head(hist)) THEN Head(hist).item.gas ELSE 0)
RECURSIVE SumWritten(_)
SumWritten(hist) ==
    IF hist = <<>> THEN 0
    ELSE SumWritten(Tail(hist)) + (IF PairStep(Head(hist)) THEN WrittenGas(Head(hist)) ELSE 0)

\* C16: each successful step (one that yields a pair) surfaces exactly the
\* gas the callback wrote during that same step, zero if it wrote nothing;
\* nothing from an earlier step is included, and over the successful steps
\* the reported amounts sum to the amounts the callback wrote in them.
C16_PerStepGas ==
    /\ \A i \in 1..Len(iter.hist) :
          PairStep(iter.hist[i]) =>
              /\ iter.hist[i].item.tag = "pair"
              /\ iter.hist[i].item.gas = WrittenGas(iter.hist[i])
    /\ SumReported(iter.hist) = SumWritten(iter.hist)

\* gas written on an end-of-sequence step, then a pair whose callback wrote
\* nothing, then a pair with gas
C16_Witness ==
    /\ Len(iter.hist) = 3
    /\ EndStep(iter.hist[1]) /\ WrittenGas(iter.hist[1]) = MaxStepGas
    /\ PairStep(iter.hist[2]) /\ ~iter.hist[2].cb.used_gas.wrote
    /\ iter.hist[2].item.gas = 0
    /\ PairStep(iter.hist[3]) /\ iter.hist[3].item.gas = MaxStepGas

FetchMessage == "Failed to fetch next item from iterator"

\* C17: the callback's return code is decided first: when next_db returns a
\* failure code the step yields an error carrying the fixed fetch-failure
\* message whatever the callback left in the key and value buffers; such a
\* step yields neither a pair nor the natural end.
C17_ReturnCodeFirst ==
    \A i \in 1..Len(iter.hist) :
        LET h == iter.hist[i] IN
        (h.called /\ h.cb.rc # 0) =>
            /\ h.item.tag = "err"
            /\ h.item.err.msg = FetchMessage
            /\ h.item.err.kind = GoResult_from(h.cb.rc)
            /\ h.item.key = <<>> /\ h.item.value = <<>> /\ h.item.gas = 0

\* the callback fails having left a whole pair in the buffers, and another
\* time having left nothing: the same error both times
C17_Witness ==
    \E i, j \in 1..Len(iter.hist) :
        /\ iter.hist[i].cb.rc = iter.hist[j].cb.rc /\ iter.hist[i].cb.rc # 0
        /\ KeyPresent(iter.hist[i]) /\ ValuePresent(iter.hist[i])
        /\ ~KeyPresent(iter.hist[j])
        /\ iter.hist[i].item.tag = "err"
        /\ iter.hist[i].item = iter.hist[j].item

VtableNotSet == ItemErr(FfiError_other("iterator vtable not set"))

\* C19: the adapter keeps no progress or termination state between steps.
\* With a callback bound every next() invokes it, also after a step that
\* failed or ended the sequence, and the item depends only on what that
\* invocation returned; with none bound every next() yields the
\* vtable-not-set error and the natural end is never reached.
C19_NotFused ==
    /\ iter.next_db =>
          /\ \A i \in 1..Len(iter.hist) : iter.hist[i].called
          /\ \A i, j \in 1..Len(iter.hist) :
                iter.hist[i].cb = iter.hist[j].cb => iter.hist[i].item = iter.hist[j].item
    /\ (iter.made /\ ~iter.next_db) =>
          \A i \in 1..Len(iter.hist) :
              /\ ~iter.hist[i].called
              /\ iter.hist[i].item = VtableNotSet
              /\ iter.hist[i].item.tag # "end"

\* the natural end, then a failure, then a pair all the same
C19_Witness ==
    /\ iter.next_db /\ Len(iter.hist) = 3
    /\ iter.hist[1].item.tag = "end"
    /\ iter.hist[2].item.tag = "err"
    /\ iter.hist[3].called /\ iter.hist[3].item.tag = "pair"

Next ==
    \E t \in SeqThreads :
        \/ key_gen(t)
        \/ init_bootstrap(t)
        \/ get_encrypted_seed(t)
        \/ init_node(t)
        \/ create_attestation_report(t)
        \/ init_cache(t)
        \/ release_cache(t)
        \/ create(t)
        \/ get_code(t)
        \/ instantiate(t)
        \/ handle(t)
        \/ migrate(t)
        \/ query(t)
        \/ get_instance(t)
        \/ call_raw(t)
        \/ write_gas_used(t)
        \/ recycle(t)
        \/ propagate(t)
        \/ ffi_return(t)
        \/ caller_continues(t)

Spec == Init /\ [][Next]_vars
(* ------------------- several threads, one cache handle ----------------- *)
\* the calls the threads make: well-formed arguments, the one live handle
ConcArgs ==
    [cache : {1}, code_id : {Buf(Checksum_generate("wasmA"))},
     params : {Buf(<<"{}">>)}, msg : {Buf(<<"{}">>)},
     gas_limit : GasLimits, gas_used : {TRUE}, err : {ErrEmpty}]

\* init_cache and create have been called: handle 1 is live and holds wasmA
ConcInit ==
    /\ frame = [t \in Threads |-> IdleFrame]
    /\ caches = [h \in Handles |->
                    IF h = 1 THEN [FreshCache EXCEPT !.state = "live", !.codes = {"wasmA"}]
                    ELSE FreshCache]
    /\ process = "running"
    /\ iter = IterIdle

ConcNext ==
    \E t \in Threads :
        \/ GasEntry(t, "handle", TRUE, ConcArgs)
        \/ GasEntry(t, "query", FALSE, ConcArgs)
        \/ get_instance(t)
        \/ call_raw(t)
        \/ write_gas_used(t)
        \/ recycle(t)
        \/ propagate(t)
        \/ ffi_return(t)
        \/ caller_continues(t)

ConcSpec == ConcInit /\ [][ConcNext]_vars
====
